---- MODULE Spec2Model ----
(***************************************************************************)
(* Model of cwxml/shader.py: RenderBucketProperty, Shader and the          *)
(* ShaderManager catalog (load_shaders, find_shader,                       *)
(* find_shader_base_name).                                                 *)
(*                                                                         *)
(* Python str values are sequences of one-character strings.  Python None  *)
(* in a place that otherwise holds a str is the value None below; a        *)
(* reference to a Shader object is its positive object id and None is 0.   *)
(***************************************************************************)
EXTENDS Integers, Sequences, FiniteSets, TLC

VARIABLES doc, heap, shaders, shaders_by_hash, shaders_base_names,
          loads, load_exc, op, arg, ret, exc

vars == <<doc, heap, shaders, shaders_by_hash, shaders_base_names,
          loads, load_exc, op, arg, ret, exc>>

tables == <<shaders, shaders_by_hash, shaders_base_names>>

(***************************************************************************)
(* Bounds                                                                  *)
(***************************************************************************)
MaxEntries == 2
MaxFileNames == 3
MaxQueryEntries == 1
MaxQueryFileNames == 2
MaxLoads == 2
MaxItems == 3
MaxText == 4
MaxParams == 3
HashBits == 8

(***************************************************************************)
(* Strings                                                                 *)
(***************************************************************************)
None == <<"<None>">>
NoRef == 0

Lowers == <<"a","b","c","d","e","f","g","h","i","j","k","l","m",
            "n","o","p","q","r","s","t","u","v","w","x","y","z">>
Uppers == <<"A","B","C","D","E","F","G","H","I","J","K","L","M",
            "N","O","P","Q","R","S","T","U","V","W","X","Y","Z">>
Digits == <<"0","1","2","3","4","5","6","7","8","9">>
Whitespace == {" ", "\t", "\n"}

\* position of a character in a table, 0 when it is not there
RECURSIVE IndexFrom(_, _, _)
IndexFrom(c, tbl, i) == IF i > Len(tbl) THEN 0
                        ELSE IF tbl[i] = c THEN i
                        ELSE IndexFrom(c, tbl, i + 1)

IndexIn(c, tbl) == IndexFrom(c, tbl, 1)

\* str.lower() on one character
LowerChar(c) == IF IndexIn(c, Uppers) > 0 THEN Lowers[IndexIn(c, Uppers)] ELSE c

\* ord() of one character (ASCII)
Ord(c) == IF c = "_" THEN 95
          ELSE IF IndexIn(c, Digits) > 0 THEN 47 + IndexIn(c, Digits)
          ELSE IF IndexIn(c, Lowers) > 0 THEN 96 + IndexIn(c, Lowers)
          ELSE IF IndexIn(c, Uppers) > 0 THEN 64 + IndexIn(c, Uppers)
          ELSE IF c = "." THEN 46
          ELSE IF c = " " THEN 32
          ELSE IF c = "\t" THEN 9
          ELSE IF c = "\n" THEN 10
          ELSE IF c = "+" THEN 43
          ELSE IF c = "-" THEN 45
          ELSE 63

\* s[n:] of Python
DropFirst(s, n) == IF n >= Len(s) THEN <<>> ELSE SubSeq(s, n + 1, Len(s))

\* str.startswith
StartsWith(s, p) == Len(s) >= Len(p) /\ SubSeq(s, 1, Len(p)) = p

RECURSIVE LStrip(_)
LStrip(s) == IF s # <<>> /\ Head(s) \in Whitespace THEN LStrip(Tail(s)) ELSE s

RECURSIVE RStrip(_)
RStrip(s) == IF s # <<>> /\ s[Len(s)] \in Whitespace
             THEN RStrip(SubSeq(s, 1, Len(s) - 1)) ELSE s

\* str.strip()
Strip(s) == RStrip(LStrip(s))

\* str.split(" "): split at every single space, keeping empty pieces
RECURSIVE SplitSpace(_, _)
SplitSpace(s, cur) ==
    IF s = <<>> THEN <<cur>>
    ELSE IF Head(s) = " " THEN <<cur>> \o SplitSpace(Tail(s), <<>>)
    ELSE SplitSpace(Tail(s), Append(cur, Head(s)))

(***************************************************************************)
(* Integers as text                                                        *)
(***************************************************************************)
HexDigits == <<"0","1","2","3","4","5","6","7","8","9","a","b","c","d","e","f">>

HexVal(c) == IndexIn(LowerChar(c), HexDigits) - 1

IsHexDigit(c) == HexVal(c) >= 0

IsDecDigit(c) == IndexIn(c, Digits) > 0

\* digits with single underscores allowed between two digits
RECURSIVE DigitsOk(_, _, _)
DigitsOk(s, base, prevDigit) ==
    IF s = <<>> THEN prevDigit
    ELSE IF Head(s) = "_" THEN prevDigit /\ DigitsOk(Tail(s), base, FALSE)
    ELSE /\ IF base = 16 THEN IsHexDigit(Head(s)) ELSE IsDecDigit(Head(s))
         /\ DigitsOk(Tail(s), base, TRUE)

RECURSIVE DigitsVal(_, _, _)
DigitsVal(s, base, acc) ==
    IF s = <<>> THEN acc
    ELSE IF Head(s) = "_" THEN DigitsVal(Tail(s), base, acc)
    ELSE DigitsVal(Tail(s), base, acc * base + HexVal(Head(s)))

\* int(s, base) for base 10 and 16: surrounding whitespace, a sign, for
\* base 16 a 0x prefix, then digits; anything else is a ValueError.
ParseInt(s, base) ==
    LET t == Strip(s)
        signed == t # <<>> /\ Head(t) \in {"+", "-"}
        u == IF signed THEN Tail(t) ELSE t
        prefixed == base = 16 /\ Len(u) >= 2 /\ u[1] = "0" /\ u[2] \in {"x", "X"}
        v == IF prefixed THEN DropFirst(u, 2) ELSE u
        w == IF prefixed /\ v # <<>> /\ Head(v) = "_" THEN Tail(v) ELSE v
        good == w # <<>> /\ Head(w) # "_"
                /\ DigitsOk(w, base, FALSE)
        mag == DigitsVal(w, base, 0)
    IN IF good
       THEN [ok |-> TRUE, val |-> IF signed /\ Head(t) = "-" THEN 0 - mag ELSE mag]
       ELSE [ok |-> FALSE, val |-> 0]

\* lower-case hexadecimal text of a natural number, no prefix, no padding
RECURSIVE HexOf(_)
HexOf(n) == IF n < 16 THEN <<HexDigits[n + 1]>>
            ELSE Append(HexOf(n \div 16), HexDigits[(n % 16) + 1])

HashPrefix == <<"h","a","s","h","_">>

HashToken(h) == HashPrefix \o HexOf(h)

(***************************************************************************)
(* jenkhash.Generate: one-at-a-time hash of the lower-cased text, at a     *)
(* word width of HashBits bits.                                            *)
(***************************************************************************)
HashMod == 2 ^ HashBits

RECURSIVE Xor(_, _)
Xor(a, b) == IF a = 0 THEN b
             ELSE IF b = 0 THEN a
             ELSE ((a + b) % 2) + 2 * Xor(a \div 2, b \div 2)

RECURSIVE JenkMix(_, _)
JenkMix(s, k) ==
    IF s = <<>> THEN k
    ELSE LET k1 == (k + Ord(LowerChar(Head(s)))) % HashMod
             k2 == (k1 + k1 * 4) % HashMod
             k3 == Xor(k2, k2 \div 2)
         IN JenkMix(Tail(s), k3)

OneAtATime(s) ==
    LET k1 == JenkMix(s, 0)
        k2 == (k1 + k1 * 2) % HashMod
        k3 == Xor(k2, k2 \div 8)
    IN (k3 + k3 * 16) % HashMod

\* Generate is OneAtATime; the hashes of the texts that occur as FileName
\* items are tabulated so that they are computed once
HashedTexts == {<<"a">>, <<"A">>}

HashTable == [s \in HashedTexts \cup {HashPrefix \o HexOf(OneAtATime(t)) : t \in HashedTexts}
              |-> OneAtATime(s)]

Generate(s) == IF s \in DOMAIN HashTable THEN HashTable[s] ELSE OneAtATime(s)

(***************************************************************************)
(* RenderBucketProperty                                                    *)
(***************************************************************************)
\* An ET.Element reduced to its tag and text; NoElement is Python None.
NoElement == [isNone |-> TRUE, tag |-> <<>>, text |-> None]

Element(tag, text) == [isNone |-> FALSE, tag |-> tag, text |-> text]

RenderBucketTag == <<"R","e","n","d","e","r","B","u","c","k","e","t">>

\* the loop of from_xml: int(item) for each item, stopping at the first error
RECURSIVE RBItems(_, _)
RBItems(items, acc) ==
    IF items = <<>> THEN [exc |-> "none", value |-> acc]
    ELSE LET p == ParseInt(Head(items), 10)
         IN IF p.ok THEN RBItems(Tail(items), Append(acc, p.val))
                    ELSE [exc |-> "ValueError", value |-> <<>>]

\* RenderBucketProperty.from_xml
RenderBucketProperty_from_xml(element) ==
    IF element.isNone \/ element.text = None
    THEN [exc |-> "AttributeError", value |-> <<>>]
    ELSE RBItems(SplitSpace(Strip(element.text), <<>>), <<>>)

\* RenderBucketProperty.to_xml: " ".join(self.value) over a list of int
\* raises TypeError unless the list is empty, and the method has no return
\* statement.
RenderBucketProperty_to_xml(value) ==
    [exc |-> IF value = <<>> THEN "none" ELSE "TypeError", ret |-> NoElement]

(***************************************************************************)
(* Shader                                                                  *)
(***************************************************************************)
\* Shader.__init__: the defaults of the four fields
Shader_init == [filename |-> <<>>, render_buckets |-> <<>>,
                layouts |-> <<>>, parameters |-> <<>>]

\* the loop returning has_uv0 or has_uv1
RECURSIVE UvScan_or(_, _, _)
UvScan_or(params, has_uv0, has_uv1) ==
    IF params = <<>> THEN has_uv0 \/ has_uv1
    ELSE UvScan_or(Tail(params),
                   has_uv0 \/ Head(params) = "globalAnimUV0",
                   has_uv1 \/ Head(params) = "globalAnimUV1")

\* the loop of is_uv_animation_supported over the parameter names
RECURSIVE UvScan(_, _, _)
UvScan(params, has_uv0, has_uv1) ==
    IF params = <<>> THEN has_uv0 /\ has_uv1
    ELSE UvScan(Tail(params),
                has_uv0 \/ Head(params) = "globalAnimUV0",
                has_uv1 \/ Head(params) = "globalAnimUV1")

is_uv_animation_supported(shader) == UvScan(shader.parameters, FALSE, FALSE)

\* Shader.from_xml(node): every declared field whose child element is
\* present is parsed by its property type, the others keep their default.
Shader_from_xml(node) ==
    LET rb == IF node.hasRenderBucket
              THEN RenderBucketProperty_from_xml(Element(RenderBucketTag, node.renderBucket))
              ELSE [exc |-> "none", value |-> <<>>]
    IN [exc |-> rb.exc,
        shader |-> [filename |-> IF node.hasName /\ node.name # None
                                 THEN node.name ELSE <<>>,
                    render_buckets |-> rb.value,
                    layouts |-> node.layouts,
                    parameters |-> node.parameters]]

(***************************************************************************)
(* ShaderManager                                                           *)
(***************************************************************************)
EmptyMap == <<>>

\* an assignment that keeps the value of a key already present
Put_first(f, k, v) == [x \in (DOMAIN f) \cup {k} |-> IF x \in DOMAIN f THEN f[x] ELSE v]

\* d[k] = v
Put(f, k, v) == [x \in (DOMAIN f) \cup {k} |-> IF x = k THEN v ELSE f[x]]

\* dict.get(k, None) for a dict of Shader references
Get(f, k) == IF k \in DOMAIN f THEN f[k] ELSE NoRef

\* the class-level tables and the objects they reference
Catalog(h, s, bh, bn, e) ==
    [heap |-> h, shaders |-> s, shaders_by_hash |-> bh,
     shaders_base_names |-> bn, exc |-> e]

\* lines 150-156 of load_shaders without the assignment to shader.filename
Register_keeps_name(node, base_name, filename, c) ==
    LET r == Shader_from_xml(node)
        id == Len(c.heap) + 1
    IN IF r.exc # "none"
       THEN [c EXCEPT !.exc = r.exc]
       ELSE Catalog(Append(c.heap, r.shader),
                    Put(c.shaders, filename, id),
                    Put(c.shaders_by_hash, Generate(filename), id),
                    Put(c.shaders_base_names, id, base_name),
                    "none")

\* lines 150-156 of load_shaders without the entry in _shaders_base_names
Register_no_base_name(node, base_name, filename, c) ==
    LET r == Shader_from_xml(node)
        id == Len(c.heap) + 1
    IN IF r.exc # "none"
       THEN [c EXCEPT !.exc = r.exc]
       ELSE Catalog(Append(c.heap, [r.shader EXCEPT !.filename = filename]),
                    Put(c.shaders, filename, id),
                    Put(c.shaders_by_hash, Generate(filename), id),
                    c.shaders_base_names,
                    "none")

\* lines 150-156 of load_shaders: a new Shader for one FileName item,
\* entered in the three tables
Register(node, base_name, filename, c) ==
    LET filename_hash == Generate(filename)
        r == Shader_from_xml(node)
        id == Len(c.heap) + 1
        shader == [r.shader EXCEPT !.filename = filename]
    IN IF r.exc # "none"
       THEN [c EXCEPT !.exc = r.exc]
       ELSE Catalog(Append(c.heap, shader),
                    Put(c.shaders, filename, id),
                    Put(c.shaders_by_hash, filename_hash, id),
                    Put(c.shaders_base_names, id, base_name),
                    "none")

\* the inner loop leaving the node at an item without text
RECURSIVE LoadFileNames_breaks(_, _, _, _)
LoadFileNames_breaks(node, base_name, filenames, c) ==
    IF filenames = <<>> \/ c.exc # "none" THEN c
    ELSE IF Head(filenames) = None
         THEN c
         ELSE CHOOSE r \in { LoadFileNames_breaks(node, base_name, Tail(filenames), c2)
                              : c2 \in {Register(node, base_name, Head(filenames), c)} }
                     : TRUE

\* inner loop of load_shaders: the FileName items of one node (the table
\* state c2 after an item is a bound variable so that it is computed once)
RECURSIVE LoadFileNames(_, _, _, _)
LoadFileNames(node, base_name, filenames, c) ==
    IF filenames = <<>> \/ c.exc # "none" THEN c
    ELSE IF Head(filenames) = None
         THEN LoadFileNames(node, base_name, Tail(filenames), c)
         ELSE CHOOSE r \in { LoadFileNames(node, base_name, Tail(filenames), c2)
                              : c2 \in {Register(node, base_name, Head(filenames), c)} }
                     : TRUE

\* outer loop of load_shaders: the nodes of the document root;
\* node.find("Name").text raises when the node has no Name child
RECURSIVE LoadNodes(_, _)
LoadNodes(nodes, c) ==
    IF nodes = <<>> \/ c.exc # "none" THEN c
    ELSE IF ~Head(nodes).hasName
         THEN [c EXCEPT !.exc = "AttributeError"]
         ELSE CHOOSE r \in { LoadNodes(Tail(nodes), c2)
                              : c2 \in {LoadFileNames(Head(nodes), Head(nodes).name,
                                                      Head(nodes).filenames, c)} }
                     : TRUE

\* find_shader reading the hash from filename[4:]
find_shader_slice(filename) ==
    LET shader == Get(shaders, filename)
    IN IF shader = NoRef /\ StartsWith(filename, HashPrefix)
       THEN LET p == ParseInt(DropFirst(filename, 4), 16)
            IN IF p.ok THEN [exc |-> "none", ret |-> Get(shaders_by_hash, p.val)]
                       ELSE [exc |-> "ValueError", ret |-> NoRef]
       ELSE [exc |-> "none", ret |-> shader]

\* ShaderManager.find_shader
find_shader(filename) ==
    LET shader == Get(shaders, filename)
    IN IF shader = NoRef /\ StartsWith(filename, HashPrefix)
       THEN LET p == ParseInt(DropFirst(filename, 5), 16)
            IN IF p.ok THEN [exc |-> "none", ret |-> Get(shaders_by_hash, p.val)]
                       ELSE [exc |-> "ValueError", ret |-> NoRef]
       ELSE [exc |-> "none", ret |-> shader]

\* ShaderManager.find_shader_base_name
find_shader_base_name(filename) ==
    LET r == find_shader(filename)
    IN IF r.exc # "none" THEN [exc |-> r.exc, ret |-> None]
       ELSE IF r.ret = NoRef THEN [exc |-> "none", ret |-> None]
       ELSE IF r.ret \in DOMAIN shaders_base_names
            THEN [exc |-> "none", ret |-> shaders_base_names[r.ret]]
            ELSE [exc |-> "KeyError", ret |-> None]

(***************************************************************************)
(* Documents: the content of Shaders.xml                                   *)
(***************************************************************************)
Str_a == <<"a">>
Str_A == <<"A">>
Name1 == <<"N","1">>
Name2 == <<"N","2">>

\* texts of the FileName items; None is an item without text.  "a" and "A"
\* have one hash, and the third name is the hash token of both.
AliasNames == {Str_a, Str_A, HashToken(Generate(Str_a))}

LoadTexts == {Str_a, Str_A, None}

QueryTexts == AliasNames

Node(hasName, name, filenames, hasRB, rb, layouts, parameters) ==
    [hasName |-> hasName, name |-> name, filenames |-> filenames,
     hasRenderBucket |-> hasRB, renderBucket |-> rb,
     layouts |-> layouts, parameters |-> parameters]

\* a well-formed entry, and one with other field values and no RenderBucket
GoodNodes == 
    { Node(TRUE, Name1, <<>>, TRUE, <<"1"," ","2">>,
           <<<<"Position","Tangent">>>>, <<"globalAnimUV0","globalAnimUV1">>),
      Node(TRUE, Name2, <<>>, FALSE, None,
           <<<<"Position","TexCoord0">>>>, <<"globalAnimUV0">>) }

\* an entry whose RenderBucket text is not numeric, and one without a Name
MalformedNodes ==
    { Node(TRUE, Name1, <<>>, TRUE, <<"x">>,
           <<<<"Position","Tangent">>>>, <<"globalAnimUV0","globalAnimUV1">>),
      Node(FALSE, None, <<>>, FALSE, None,
           <<<<"Position","Tangent">>>>, <<"globalAnimUV0","globalAnimUV1">>) }

\* The document in reading order: the start of an entry (with its fields
\* other than FileName), or one FileName item of the entry last started.
OpenTag(node) == [isItem |-> FALSE, node |-> node, text |-> None]

ItemTag(text) == [isItem |-> TRUE, node |-> CHOOSE n \in GoodNodes : TRUE, text |-> text]

Tags(nodes, texts) == {OpenTag(n) : n \in nodes} \cup {ItemTag(t) : t \in texts}

CountTags(tags, isItem) == Cardinality({i \in 1..Len(tags) : tags[i].isItem = isItem})

WellFormedTags(tags, maxEntries, maxFileNames) ==
    /\ tags # <<>> => ~tags[1].isItem
    /\ CountTags(tags, FALSE) <= maxEntries
    /\ CountTags(tags, TRUE) <= maxFileNames

\* tree.getroot(): the entries with their FileName items
RECURSIVE RootNodes(_, _)
RootNodes(tags, acc) ==
    IF tags = <<>> THEN acc
    ELSE IF Head(tags).isItem
         THEN RootNodes(Tail(tags),
                        [acc EXCEPT ![Len(acc)].filenames = Append(@, Head(tags).text)])
         ELSE RootNodes(Tail(tags), Append(acc, Head(tags).node))

\* arguments of the lookups
Queries == AliasNames
           \cup {HashToken(Generate(n)) : n \in AliasNames}
           \cup {HashPrefix, HashPrefix \o <<"z","z">>}

(***************************************************************************)
(* The catalog: loading and lookups                                        *)
(***************************************************************************)
InitCatalog ==
    /\ heap = <<>>
    /\ shaders = EmptyMap
    /\ shaders_by_hash = EmptyMap
    /\ shaders_base_names = EmptyMap
    /\ loads = 0
    /\ load_exc = "none"
    /\ op = "init"
    /\ ret = NoRef
    /\ exc = "none"

\* ShaderManager.load_shaders(), at import (line 173) and at any later call.
\* A load that raises at import leaves no module to call, so a raising load
\* is followed by no other call; the document is the same at every load.
load_shaders ==
    /\ loads < MaxLoads
    /\ loads > 0 => load_exc = "none"
    /\ \E c \in {LoadNodes(doc, Catalog(heap, shaders, shaders_by_hash,
                                       shaders_base_names, "none"))} :
          /\ heap' = c.heap
          /\ shaders' = c.shaders
          /\ shaders_by_hash' = c.shaders_by_hash
          /\ shaders_base_names' = c.shaders_base_names
          /\ load_exc' = c.exc
          /\ exc' = c.exc
    /\ loads' = loads + 1
    /\ op' = "load_shaders"
    /\ arg' = <<>>
    /\ ret' = NoRef
    /\ UNCHANGED doc

\* a call of ShaderManager.find_shader(filename)
FindShader ==
    /\ loads > 0
    /\ load_exc = "none"
    /\ \E filename \in Queries :
          \E r \in {find_shader(filename)} :
             /\ op' = "find_shader"
             /\ arg' = filename
             /\ ret' = r.ret
             /\ exc' = r.exc
    /\ UNCHANGED <<doc, heap, shaders, shaders_by_hash, shaders_base_names,
                   loads, load_exc>>

\* a call of ShaderManager.find_shader_base_name(filename)
FindShaderBaseName ==
    /\ loads > 0
    /\ load_exc = "none"
    /\ \E filename \in Queries :
          \E r \in {find_shader_base_name(filename)} :
             /\ op' = "find_shader_base_name"
             /\ arg' = filename
             /\ ret' = r.ret
             /\ exc' = r.exc
    /\ UNCHANGED <<doc, heap, shaders, shaders_by_hash, shaders_base_names,
                   loads, load_exc>>

\* the query phase over well-formed documents
Init ==
    /\ \E n \in 0..(MaxQueryEntries + MaxQueryFileNames) :
          \E tags \in [1..n -> Tags(GoodNodes, QueryTexts)] :
             /\ WellFormedTags(tags, MaxQueryEntries, MaxQueryFileNames)
             /\ doc = RootNodes(tags, <<>>)
    /\ arg = <<>>
    /\ InitCatalog

Next == load_shaders \/ FindShader \/ FindShaderBaseName

Spec == Init /\ [][Next]_vars

\* loading any document, malformed ones included
InitLoad ==
    /\ \E n \in 0..(MaxEntries + MaxFileNames) :
          \E tags \in [1..n -> Tags(GoodNodes \cup MalformedNodes, LoadTexts)] :
             /\ WellFormedTags(tags, MaxEntries, MaxFileNames)
             /\ doc = RootNodes(tags, <<>>)
    /\ arg = <<>>
    /\ InitCatalog

NextLoad == load_shaders

SpecLoad == InitLoad /\ [][NextLoad]_vars

(***************************************************************************)
(* RenderBucketProperty on its own                                         *)
(***************************************************************************)
RBInts == {0, 12, 0 - 3}

RBChars == {"1", "2", " ", "\t"}

\* a value to write, or the text of an element to read (None: no text)
RBArgs == { [value |-> v, text |-> None]
            : v \in UNION {[1..n -> RBInts] : n \in 0..MaxItems} }
          \cup { [value |-> <<>>, text |-> t]
                 : t \in UNION {[1..n -> RBChars] : n \in 0..MaxText} }

InitRB == doc = <<>> /\ arg \in RBArgs /\ InitCatalog

\* RenderBucketProperty(value=arg.value).to_xml()
RB_to_xml ==
    /\ op = "init"
    /\ arg.text = None
    /\ \E r \in {RenderBucketProperty_to_xml(arg.value)} :
          ret' = r.ret /\ exc' = r.exc
    /\ op' = "to_xml"
    /\ UNCHANGED <<doc, heap, shaders, shaders_by_hash, shaders_base_names,
                   loads, load_exc, arg>>

\* RenderBucketProperty.from_xml(element) for an element with text arg.text
RB_from_xml ==
    /\ op = "init"
    /\ \E r \in {RenderBucketProperty_from_xml(Element(RenderBucketTag, arg.text))} :
          ret' = r.value /\ exc' = r.exc
    /\ op' = "from_xml"
    /\ UNCHANGED <<doc, heap, shaders, shaders_by_hash, shaders_base_names,
                   loads, load_exc, arg>>

\* RenderBucketProperty.from_xml(p.to_xml()) once to_xml has returned
RB_round_trip ==
    /\ op = "to_xml"
    /\ exc = "none"
    /\ \E r \in {RenderBucketProperty_from_xml(ret)} :
          ret' = r.value /\ exc' = r.exc
    /\ op' = "round_trip"
    /\ UNCHANGED <<doc, heap, shaders, shaders_by_hash, shaders_base_names,
                   loads, load_exc, arg>>

NextRB == RB_to_xml \/ RB_from_xml \/ RB_round_trip

SpecRB == InitRB /\ [][NextRB]_vars

(***************************************************************************)
(* Shader.is_uv_animation_supported on its own                             *)
(***************************************************************************)
ParamNames == {"globalAnimUV0", "globalAnimUV1", "globalAnimUV", "DiffuseSampler"}

InitUV ==
    /\ doc = <<>>
    /\ arg \in UNION {[1..n -> ParamNames] : n \in 0..MaxParams}
    /\ InitCatalog

\* shader.is_uv_animation_supported for a Shader whose parameters are arg
Read_is_uv_animation_supported ==
    /\ op = "init"
    /\ ret' = is_uv_animation_supported([Shader_init EXCEPT !.parameters = arg])
    /\ exc' = "none"
    /\ op' = "is_uv_animation_supported"
    /\ UNCHANGED <<doc, heap, shaders, shaders_by_hash, shaders_base_names,
                   loads, load_exc, arg>>

NextUV == Read_is_uv_animation_supported

SpecUV == InitUV /\ [][NextUV]_vars

(***************************************************************************)
(* Properties                                                              *)
(***************************************************************************)
Range(f) == {f[x] : x \in DOMAIN f}

\* the FileName items with text of one entry, each with the Name text and
\* the position of the entry
RECURSIVE NodeItems(_, _, _)
NodeItems(filenames, name, i) ==
    IF filenames = <<>> THEN <<>>
    ELSE (IF Head(filenames) = None THEN <<>>
          ELSE <<[text |-> Head(filenames), name |-> name, entry |-> i]>>)
         \o NodeItems(Tail(filenames), name, i)

\* the FileName items with text of a list of nodes, in document order
RECURSIVE ItemsFrom(_, _)
ItemsFrom(nodes, i) ==
    IF i > Len(nodes) THEN <<>>
    ELSE NodeItems(nodes[i].filenames, nodes[i].name, i) \o ItemsFrom(nodes, i + 1)

Items == ItemsFrom(doc, 1)

\* the item for which the Shader object id was built: every load builds one
\* Shader per item, in order
ItemOf(items, id) == items[((id - 1) % Len(items)) + 1]

\* the texts with items in the entries after entry i
LaterTexts(items, i) == {items[j].text : j \in {x \in 1..Len(items) : items[x].entry > i}}

TextsOf(items, i) == {items[j].text : j \in {x \in 1..Len(items) : items[x].entry = i}}

\* no entry lacks its Name child or has a field that does not parse
NoStructuralError ==
    \A i \in 1..Len(doc) : doc[i].hasName /\ Shader_from_xml(doc[i]).exc = "none"

NoOtherAliasWithHashOf(f) ==
    \A g \in DOMAIN shaders : g # f => Generate(g) # Generate(f)

\* C1 as stated: after load_shaders, for every registered alias f with no
\* other registered alias of the same hash, find_shader("hash_" + hex(hash(f)))
\* returns the Shader that find_shader(f) returns.
C1_HashTokenFindsAlias ==
    \A f \in DOMAIN shaders :
        (op = "find_shader" /\ arg = HashToken(Generate(f)) /\ NoOtherAliasWithHashOf(f))
        => (exc = "none" /\ ret = find_shader(f).ret)

\* C1 amended: the same, given also that the hash token is not itself the
\* filename of a registered alias (an exact filename match comes first).
C1_HashTokenFindsAliasUnlessRegistered ==
    \A f \in DOMAIN shaders :
        (/\ op = "find_shader"
         /\ arg = HashToken(Generate(f))
         /\ NoOtherAliasWithHashOf(f)
         /\ HashToken(Generate(f)) \notin DOMAIN shaders)
        => (exc = "none" /\ ret # NoRef /\ ret = find_shader(f).ret)

C1_Witness ==
    /\ op = "find_shader"
    /\ Str_a \in DOMAIN shaders
    /\ arg = HashToken(Generate(Str_a))
    /\ arg \notin DOMAIN shaders
    /\ NoOtherAliasWithHashOf(Str_a)
    /\ exc = "none"
    /\ ret = shaders[Str_a]

\* C2: find_shader never raises and returns a registered Shader or None; an
\* unregistered filename, an unregistered hash token and a "hash_" token
\* whose suffix is not hexadecimal or is empty all give None.
C2_FindShaderTotal ==
    op = "find_shader" =>
        /\ exc = "none"
        /\ ret = NoRef \/ ret \in Range(shaders) \cup Range(shaders_by_hash)
        /\ (arg \notin DOMAIN shaders /\ ~StartsWith(arg, HashPrefix)) => ret = NoRef
        /\ (/\ arg \notin DOMAIN shaders
            /\ StartsWith(arg, HashPrefix)
            /\ \A h \in DOMAIN shaders_by_hash : ParseInt(DropFirst(arg, 5), 16).val # h)
           => ret = NoRef
        /\ (StartsWith(arg, HashPrefix) /\ ~ParseInt(DropFirst(arg, 5), 16).ok
            /\ arg \notin DOMAIN shaders) => ret = NoRef

\* C3: find_shader_base_name(s) never raises, returns None exactly when
\* find_shader(s) returns None, and otherwise the Name text of the entry from
\* which the Shader returned by find_shader(s) was built.
C3_BaseNameFollowsFindShader ==
    op = "find_shader_base_name" =>
        /\ exc = "none"
        /\ find_shader(arg).exc = "none"
        /\ (ret = None) <=> (find_shader(arg).ret = NoRef)
        /\ find_shader(arg).ret # NoRef
              => ret = ItemOf(Items, find_shader(arg).ret).name

\* the entries C4 is about: at least two FileName items with text, no two of
\* them with the same text
SeveralDistinctAliases(items, i) ==
    /\ Cardinality({x \in 1..Len(items) : items[x].entry = i}) >= 2
    /\ \A x, y \in 1..Len(items) :
          (items[x].entry = i /\ items[y].entry = i /\ x # y)
          => items[x].text # items[y].text

\* what C4 says of the aliases as of one entry named name
OneShaderPerAlias(as, name) ==
    /\ \A a \in as :
          /\ find_shader(a).exc = "none"
          /\ find_shader(a).ret # NoRef
          /\ heap[find_shader(a).ret].filename = a
          /\ find_shader_base_name(a).exc = "none"
          /\ find_shader_base_name(a).ret = name
    /\ \A a, b \in as :
          /\ a # b => find_shader(a).ret # find_shader(b).ret
          /\ heap[find_shader(a).ret].render_buckets = heap[find_shader(b).ret].render_buckets
          /\ heap[find_shader(a).ret].layouts = heap[find_shader(b).ret].layouts
          /\ heap[find_shader(a).ret].parameters = heap[find_shader(b).ret].parameters

\* C4 as stated: for an entry named N with several distinct non-empty
\* aliases, after load_shaders every alias a has find_shader(a).filename = a
\* and find_shader_base_name(a) = N, the Shaders are distinct objects and
\* they have equal render_buckets, layouts and parameters.
C4_OneShaderPerAlias ==
    (op = "load_shaders" /\ exc = "none") =>
        \A items \in {Items} : \A i \in 1..Len(doc) :
            SeveralDistinctAliases(items, i)
            => OneShaderPerAlias(TextsOf(items, i), doc[i].name)

\* C4 amended: the same for the aliases of the entry that no later entry of
\* the document lists again.
C4_OneShaderPerAliasNotListedLater ==
    (op = "load_shaders" /\ exc = "none") =>
        \A items \in {Items} : \A i \in 1..Len(doc) :
            SeveralDistinctAliases(items, i)
            => OneShaderPerAlias(TextsOf(items, i) \ LaterTexts(items, i), doc[i].name)

C4_Witness ==
    /\ op = "load_shaders"
    /\ exc = "none"
    /\ Len(doc) = 2
    /\ doc[1].filenames = <<Str_a, Str_A>>
    /\ doc[2].filenames = <<Str_A>>
    /\ doc[1].renderBucket # doc[2].renderBucket
    /\ heap[shaders[Str_a]].filename = Str_a
    /\ shaders_base_names[shaders[Str_a]] = doc[1].name
    /\ shaders_base_names[shaders[Str_A]] = doc[2].name

\* C5: a FileName item without text is skipped by load_shaders: it adds no
\* key to _shaders, _shaders_by_hash or _shaders_base_names and raises
\* nothing, and the other items of the entry and of later entries are
\* registered.
C5_ItemWithoutTextSkipped ==
    (op = "load_shaders" /\ NoStructuralError) =>
        \A items \in {Items} :
            /\ exc = "none"
            /\ None \notin DOMAIN shaders
            /\ DOMAIN shaders = {items[j].text : j \in 1..Len(items)}
            /\ DOMAIN shaders_by_hash = {Generate(items[j].text) : j \in 1..Len(items)}
            /\ DOMAIN shaders_base_names = 1..(loads * Len(items))
            /\ Len(heap) = loads * Len(items)

C5_Witness ==
    /\ op = "load_shaders"
    /\ exc = "none"
    /\ Len(doc) = 2
    /\ doc[1].filenames = <<None, Str_a>>
    /\ doc[2].filenames = <<Str_A>>
    /\ DOMAIN shaders = {Str_a, Str_A}
    /\ Len(heap) = 2

\* C6: last write wins in document order: for two processed items with the
\* same filename, or with different filenames of the same hash,
\* _shaders[filename] and _shaders_by_hash[hash] are the Shader built for
\* the later item, so the earlier Shader is no longer found under that key.
\* (Shader ids count the Shaders in the order they were built: the table
\* entry for the key of Shader id is a Shader with that key built no earlier.)
C6_LastWriteWins ==
    \A items \in {Items} :
    \A hashes \in {[j \in 1..Len(heap) |-> Generate(heap[j].filename)]} :
    \A id \in 1..Len(heap) :
        /\ heap[id].filename = ItemOf(items, id).text
        /\ shaders[heap[id].filename] \in id..Len(heap)
        /\ heap[shaders[heap[id].filename]].filename = heap[id].filename
        /\ shaders_by_hash[hashes[id]] \in id..Len(heap)
        /\ hashes[shaders_by_hash[hashes[id]]] = hashes[id]

C6_Witness ==
    /\ op = "load_shaders"
    /\ exc = "none"
    /\ loads = 1
    /\ Len(heap) = 3
    /\ heap[1].filename = Str_a
    /\ heap[2].filename = Str_a
    /\ heap[3].filename = Str_A
    /\ shaders[Str_a] = 2
    /\ shaders[Str_A] = 3
    /\ shaders_by_hash[Generate(Str_a)] = 3

\* C7: a load that raises leaves _shaders, _shaders_by_hash and
\* _shaders_base_names as they were before the load began.
C7_FailedLoadLeavesTables ==
    [][(op' = "load_shaders" /\ exc' # "none") => tables' = tables]_vars

\* decimal text of an integer, as str(n)
RECURSIVE NatToStr(_)
NatToStr(n) == IF n < 10 THEN <<Digits[n + 1]>>
               ELSE Append(NatToStr(n \div 10), Digits[(n % 10) + 1])

IntToStr(n) == IF n < 0 THEN <<"-">> \o NatToStr(0 - n) ELSE NatToStr(n)

\* the integers joined by a single space
RECURSIVE JoinSpace(_)
JoinSpace(xs) == IF xs = <<>> THEN <<>>
                 ELSE IF Len(xs) = 1 THEN IntToStr(xs[1])
                 ELSE IntToStr(xs[1]) \o <<" ">> \o JoinSpace(Tail(xs))

\* the pieces of a text between runs of whitespace
RECURSIVE SplitWhitespace(_, _)
SplitWhitespace(s, cur) ==
    IF s = <<>> THEN (IF cur = <<>> THEN <<>> ELSE <<cur>>)
    ELSE IF Head(s) \in Whitespace
         THEN (IF cur = <<>> THEN <<>> ELSE <<cur>>) \o SplitWhitespace(Tail(s), <<>>)
         ELSE SplitWhitespace(Tail(s), Append(cur, Head(s)))

\* C8: to_xml gives an element whose text is the integers joined by a
\* single space, from_xml of that element gives the same integers in the
\* same order, and from_xml accepts integers separated by any whitespace.
C8_RenderBucketRoundTrip ==
    /\ op = "to_xml" =>
          /\ exc = "none"
          /\ ~ret.isNone
          /\ ret.text = JoinSpace(arg.value)
          /\ RenderBucketProperty_from_xml(ret) = [exc |-> "none", value |-> arg.value]
    /\ (op = "from_xml" /\ arg.text # None) =>
          \A pieces \in {SplitWhitespace(arg.text, <<>>)} :
              (\A i \in 1..Len(pieces) : ParseInt(pieces[i], 10).ok)
              => /\ exc = "none"
                 /\ ret = [i \in 1..Len(pieces) |-> ParseInt(pieces[i], 10).val]

\* C9: is_uv_animation_supported is true exactly when the parameters hold
\* one named globalAnimUV0 and one named globalAnimUV1, at any positions.
C9_UvAnimationNeedsBoth ==
    op = "is_uv_animation_supported" =>
        (ret <=> ("globalAnimUV0" \in Range(arg) /\ "globalAnimUV1" \in Range(arg)))

C9_Witness ==
    /\ op = "is_uv_animation_supported"
    /\ arg = <<"globalAnimUV1", "DiffuseSampler", "globalAnimUV0">>
    /\ ret = TRUE

\* every Shader in _shaders or _shaders_by_hash is a key of
\* _shaders_base_names, and _shaders[k].filename = k
IndexConsistent ==
    /\ \A k \in DOMAIN shaders :
          /\ shaders[k] \in DOMAIN shaders_base_names
          /\ shaders[k] \in 1..Len(heap)
          /\ heap[shaders[k]].filename = k
    /\ \A h \in DOMAIN shaders_by_hash :
          shaders_by_hash[h] \in DOMAIN shaders_base_names

\* C10: after any successful loads and any lookups, the index is consistent
\* and the lookups leave the three tables unchanged.
C10_IndexConsistency ==
    /\ [](load_exc = "none" => IndexConsistent)
    /\ [][op' \in {"find_shader", "find_shader_base_name"} => tables' = tables]_vars

C10_Witness ==
    /\ op = "find_shader_base_name"
    /\ loads = 2
    /\ exc = "none"
    /\ ret = Name2
    /\ Cardinality(DOMAIN shaders) = 2
    /\ Cardinality(DOMAIN shaders_by_hash) = 1

====
